---- MODULE Spec2Model ----
(***************************************************************************)
(* ReportingServiceImpl (net/reporting/reporting_service.cc): the facade   *)
(* that gates every public operation behind the asynchronous load of the   *)
(* persistent store, together with the parts of the cache, header parser,  *)
(* browsing-data remover and delivery agent that the facade drives.        *)
(***************************************************************************)
EXTENDS Integers, Sequences, FiniteSets

\* ------------------------------------------------------------------ bounds
MaxCalls == 3          \* public calls issued in one behaviour
MaxTick == 1           \* readings of the tick clock
MaxReportAttempts == 2  \* Policy.MaxReportAttempts
MaxRequests == 2       \* resolver: request objects created
MaxPosted == 3         \* resolver: ResolveNow tasks waiting to run
MaxLoads == 1          \* resolver: LoadIntoCache calls
MaxReportCount == 2    \* ReportingPolicy::max_report_count

\* --------------------------------------------------------------- constants
kMaxJsonSize == 16384
kMaxJsonDepth == 5
kCacheEntryTTLSeconds == 60

\* ------------------------------------------------------------------ inputs
Origins == {"a", "b"}
NIKs == {"k1", "k2"}
\* The documents that call in: an origin under a partition key.
Pages ==
  {[origin |-> "a", nik |-> "k1"], [origin |-> "a", nik |-> "k2"],
   [origin |-> "b", nik |-> "k1"]}
\* The document a reporting source belongs to.
SourceOrigin == "a"
EmptyNik == "empty"
Sources == {"S"}
NoSource == "none"
Groups == {"g"}
REPORTS == "REPORTS"
CLIENTS == "CLIENTS"
Masks == {{REPORTS}, {CLIENTS}, {REPORTS, CLIENTS}}
FilterMasks == {{REPORTS}, {CLIENTS}}
Filters == {{"a"}}
HeaderSizes == {kMaxJsonSize, kMaxJsonSize + 1}
HeaderDepths == {kMaxJsonDepth - 1, kMaxJsonDepth, kMaxJsonDepth + 1}
\* A header value as JSON text: whether it parses, and its own nesting depth.
MalformedJson == [well_formed |-> FALSE, depth |-> 0]
HeaderJsons ==
  {MalformedJson} \cup {[well_formed |-> TRUE, depth |-> d] : d \in HeaderDepths}
NoInput == "-"
\* The isolation info of a document, as the partition key it carries.
IsolationInfo(nik) == [network_isolation_key |-> nik]
UploadOutcomes == {"SUCCESS", "REMOVE_ENDPOINT", "FAILURE"}
StoredClient == [source |-> NoSource, origin |-> "a", nik |-> "k1", group |-> "g"]
StoreContents == {{}, {StoredClient}}

VARIABLES
  persisted,                    \* context_->IsClientDataPersisted()
  respect_network_isolation_key,
  shut_down,
  started_loading_from_store,
  initialized,
  task_backlog,
  store_clients,                \* what the persistent store holds
  store_load_pending,           \* LoadReportingClients callback not yet run
  store_loads,                  \* number of LoadReportingClients calls
  reports,                      \* cache: sequence of reports, insertion order
  clients,                      \* cache: set of endpoint-group keys
  expired_sources,              \* cache: sources marked expired
  uploads,                      \* delivery agent: batches handed to the uploader
  send_requests,                \* SendReportsForSource calls received
  now,                          \* tick clock
  calls,                        \* public calls issued so far
  issued,                       \* ids of the gated calls with valid input
  shutdown_call,                \* number of the OnShutdown call, 0 before it
  loaded_at,                    \* calls issued when the load completed, -1 before
  last_call,                    \* what the caller passed to the latest call
  executed,                     \* log of the tasks run against the cache
  dchecks_ok,                   \* no DCHECK of the facade has failed
  isolation_infos,              \* isolation info held for each source
  destroyed,                    \* the destructor has run
  flushes,                      \* calls of cache()->Flush()
  requests,                     \* resolver: requests_, id -> request
  reqs,                         \* resolver: the request objects
  posted_tasks,                 \* resolver: posted ResolveNow tasks
  next_request_id,              \* resolver: next_request_id_
  synchronous_mode,             \* resolver: synchronous_mode_
  ondemand_mode,                \* resolver: ondemand_mode_
  rules_map,                    \* resolver: sources that have rules
  cache,                        \* resolver: cache_, entries or null
  cache_invalidation_nums,      \* resolver: hits left for each key
  initial_cache_invalidation_num,
  num_non_local_resolves,       \* resolver: ResolveProc calls
  loads,                        \* resolver: LoadIntoCache calls
  on_shutdown_called,           \* resolver: OnShutdown has run
  failed                        \* resolver: the assertion that failed

reportingVars ==
        <<persisted, respect_network_isolation_key, shut_down,
          started_loading_from_store, initialized, task_backlog,
          store_clients, store_load_pending, store_loads, reports, clients,
          expired_sources, uploads, send_requests, now, calls, issued,
          shutdown_call, loaded_at, last_call, executed, dchecks_ok,
          isolation_infos, destroyed, flushes>>

mockConfigVars ==
  <<synchronous_mode, ondemand_mode, initial_cache_invalidation_num>>
resolverVars ==
  <<requests, reqs, posted_tasks, next_request_id, rules_map, cache,
    cache_invalidation_nums, num_non_local_resolves, loads,
    on_shutdown_called, failed, mockConfigVars>>

vars == <<reportingVars, resolverVars>>

configVars == <<persisted, respect_network_isolation_key, store_clients>>
gateVars == <<started_loading_from_store, store_load_pending, store_loads,
              task_backlog>>
historyVars == <<issued, shutdown_call, loaded_at>>
cacheVars ==
  <<reports, clients, expired_sources, executed, dchecks_ok, isolation_infos>>
agentVars == <<uploads, send_requests>>
lifetimeVars == <<destroyed, flushes>>

\* ------------------------------------------------------------------- tasks
Task(op, id, source, nik, origin, group, queued, max_age, mask, filter, isolation_info) ==
  [op |-> op, id |-> id, source |-> source, nik |-> nik, origin |-> origin,
   group |-> group, queued |-> queued, max_age |-> max_age, mask |-> mask,
   filter |-> filter, isolation_info |-> isolation_info]


\* ------------------------------------------------------------------- cache
\* The functional view of the state a task acts on.
Ctx ==
  [reports |-> reports, clients |-> clients,
   expired_sources |-> expired_sources, executed |-> executed,
   task_backlog |-> task_backlog, initialized |-> initialized,
   dchecks_ok |-> dchecks_ok, isolation_infos |-> isolation_infos]

Install(st) ==
  /\ reports' = st.reports
  /\ clients' = st.clients
  /\ expired_sources' = st.expired_sources
  /\ executed' = st.executed
  /\ task_backlog' = st.task_backlog
  /\ dchecks_ok' = st.dchecks_ok
  /\ isolation_infos' = st.isolation_infos

\* DCHECK(cond)
DCheck(st, cond) == [st EXCEPT !.dchecks_ok = @ /\ cond]

InFlight(r) == r.status \in {"PENDING", "DOOMED"}

RemoveAt(s, i) == SubSeq(s, 1, i - 1) \o SubSeq(s, i + 1, Len(s))

\* The oldest report among the indices idxs: least queued tick, then
\* insertion order.
OldestIndex(rs, idxs) ==
  CHOOSE i \in idxs :
    \A j \in idxs :
      \/ rs[i].queued < rs[j].queued
      \/ (rs[i].queued = rs[j].queued /\ i <= j)

NewReport(t) ==
  [id |-> t.id, source |-> t.source, nik |-> t.nik, origin |-> t.origin,
   group |-> t.group, queued |-> t.queued, attempts |-> 0,
   status |-> "QUEUED"]

\* add_report: append; over the cap, evict the oldest report that is not
\* in flight, and when every report is in flight mark the oldest DOOMED.
EvictForAdd(rs) ==
  LET free == {i \in 1..Len(rs) : ~InFlight(rs[i])}
      pend == {i \in 1..Len(rs) : rs[i].status = "PENDING"}
  IN  IF Len(rs) < MaxReportCount THEN rs
      ELSE IF free # {} THEN RemoveAt(rs, OldestIndex(rs, free))
      ELSE IF pend # {}
        THEN [rs EXCEPT ![OldestIndex(rs, pend)].status = "DOOMED"]
      ELSE rs

AddReport(st, t) ==
  [st EXCEPT !.reports = Append(EvictForAdd(st.reports), NewReport(t))]

ClientKey(source, origin, nik, group) ==
  [source |-> source, origin |-> origin, nik |-> nik, group |-> group]

\* ParseReportToHeader: max_age = 0 deletes the group, anything else upserts.
ParseReportToHeader(st, t) ==
  LET key == ClientKey(NoSource, t.origin, t.nik, t.group)
  IN  IF t.max_age = 0
      THEN [st EXCEPT !.clients = @ \ {key}]
      ELSE [st EXCEPT !.clients = @ \cup {key}]

\* ProcessParsedReportingEndpointsHeader: the V1 name -> url map of a source,
\* keyed by (source, group name); a later map replaces the entry.
ProcessParsedReportingEndpointsHeader(st, t) ==
  [st EXCEPT
     !.clients =
       {c \in @ : ~(c.source = t.source /\ c.group = t.group)}
         \cup {ClientKey(t.source, t.origin, t.nik, t.group)},
     !.isolation_infos =
       {i \in @ : i.source # t.source}
         \cup {[source |-> t.source, isolation_info |-> t.isolation_info]}]

\* ReportingBrowsingDataRemover: reports in flight are doomed, the others
\* removed; endpoint groups of a matching origin are removed.
RemoveReportsMatching(rs, filter) ==
  LET kept == SelectSeq(rs, LAMBDA r : ~(r.origin \in filter) \/ InFlight(r))
  IN  [i \in 1..Len(kept) |->
         IF kept[i].origin \in filter
         THEN [kept[i] EXCEPT !.status = "DOOMED"]
         ELSE kept[i]]

RemoveBrowsingDataFrom(st, mask, filter) ==
  [st EXCEPT
     !.reports = IF REPORTS \in mask THEN RemoveReportsMatching(@, filter) ELSE @,
     !.clients = IF CLIENTS \in mask THEN {c \in @ : c.origin \notin filter} ELSE @]

AddClientsLoadedFromStore(st, loaded) ==
  [st EXCEPT !.clients = @ \cup loaded]

SetExpiredSource(st, source) ==
  [st EXCEPT !.expired_sources = @ \cup {source}]

\* ------------------------------------------------------- deferred task bodies
Logged(st, t) ==
  [st EXCEPT !.executed =
     Append(@, [id |-> t.id, nik |-> t.nik,
                isolation_info |-> t.isolation_info, saw |-> st.clients])]

\* Mutant: the report is stamped with the clock read when the task runs.
DoQueueReportStampedWhenRun(st, t) ==
  AddReport(Logged(DCheck(st, st.initialized), t), [t EXCEPT !.queued = now])

DoQueueReport(st, t) ==
  AddReport(Logged(DCheck(st, st.initialized), t), t)

DoProcessReportToHeader(st, t) ==
  ParseReportToHeader(Logged(DCheck(st, st.initialized), t), t)

DoSetDocumentReportingEndpoints(st, t) ==
  ProcessParsedReportingEndpointsHeader(
    Logged(DCheck(st, st.initialized), t), t)

DoRemoveBrowsingData(st, t) ==
  RemoveBrowsingDataFrom(Logged(DCheck(st, st.initialized), t), t.mask,
                         t.filter)

DoRemoveAllBrowsingData(st, t) ==
  RemoveBrowsingDataFrom(Logged(DCheck(st, st.initialized), t), t.mask,
                         Origins)

\* std::move(task).Run()
RunTask(st, t) ==
  CASE t.op = "QueueReport" -> DoQueueReport(st, t)
    [] t.op = "ProcessReportToHeader" -> DoProcessReportToHeader(st, t)
    [] t.op = "SetDocumentReportingEndpoints" ->
         DoSetDocumentReportingEndpoints(st, t)
    [] t.op = "RemoveBrowsingData" -> DoRemoveBrowsingData(st, t)
    [] t.op = "RemoveAllBrowsingData" -> DoRemoveAllBrowsingData(st, t)

\* Mutant: the backlog replayed newest first.
RECURSIVE RunTasksNewestFirst(_, _)
RunTasksNewestFirst(st, tasks) ==
  IF tasks = <<>> THEN st
  ELSE RunTask(RunTasksNewestFirst(st, Tail(tasks)), Head(tasks))

RECURSIVE RunTasks(_, _)
RunTasks(st, tasks) ==
  IF tasks = <<>> THEN st
  ELSE RunTasks(RunTask(st, Head(tasks)), Tail(tasks))

\* Mutant: the backlog replayed without being cleared.
ExecuteBacklogKeepingTasks(st) ==
  IF shut_down THEN st
  ELSE [RunTasks(st, st.task_backlog) EXCEPT !.task_backlog = st.task_backlog]

\* Mutant: the backlog replayed on a service that was shut down.
ExecuteBacklogIgnoringShutdown(st) ==
  [RunTasks(st, st.task_backlog) EXCEPT !.task_backlog = <<>>]

ExecuteBacklog(st) ==
  LET checked == DCheck(st, st.initialized)
  IN  IF shut_down THEN checked
      ELSE [RunTasks(checked, checked.task_backlog)
              EXCEPT !.task_backlog = <<>>]

\* Mutant: the loaded clients installed after the backlog has run.
ClientsLoadedAfterBacklog(st, loaded) ==
  AddClientsLoadedFromStore(
    ExecuteBacklog([st EXCEPT !.initialized = TRUE]), loaded)

\* Mutant: initialized_ set after the backlog has run.
ClientsLoadedInitializedLast(st, loaded) ==
  [ExecuteBacklog(AddClientsLoadedFromStore(st, loaded))
     EXCEPT !.initialized = TRUE]

\* The body of OnClientsLoaded.
ClientsLoaded(st, loaded) ==
  ExecuteBacklog(
    AddClientsLoadedFromStore([st EXCEPT !.initialized = TRUE], loaded))


\* ---------------------------------------------------------- delivery agent
\* The endpoint group a report is delivered through: the V1 endpoints of its
\* source when they exist, else the V0 group of its origin and partition.
GroupFor(r, cs) ==
  LET v1 == {c \in cs : c.source # NoSource /\ c.source = r.source
                        /\ c.group = r.group}
      v0 == {c \in cs : c.source = NoSource /\ c.origin = r.origin
                        /\ c.nik = r.nik /\ c.group = r.group}
  IN  IF v1 # {} THEN v1 ELSE v0

\* Mutant: no group counts as uploading.
BusyNever(key) == FALSE

\* The group already has an upload in flight.
Busy(key) == \E u \in uploads : u.key = key

\* get_reports_to_deliver: QUEUED reports of sources that are not expired.
Deliverable(r) ==
  /\ r.status = "QUEUED"
  /\ r.source \notin expired_sources
  /\ \E k \in GroupFor(r, clients) : ~Busy(k)

KeyOf(r) == CHOOSE k \in GroupFor(r, clients) : ~Busy(k)

\* Starts one upload per endpoint group for the reports in batch (indices).
StartUploads(batch) ==
  LET keys == {KeyOf(reports[i]) : i \in batch}
  IN  /\ uploads' = uploads \cup
           {[key |-> k,
             ids |-> {reports[i].id : i \in {j \in batch : KeyOf(reports[j]) = k}}]
              : k \in keys}
      /\ reports' = [i \in 1..Len(reports) |->
           IF i \in batch
           THEN [reports[i] EXCEPT !.status = "PENDING",
                                   !.attempts = @ + 1]
           ELSE reports[i]]

DeliveryTick ==
  LET batch == {i \in 1..Len(reports) : Deliverable(reports[i])}
  IN  /\ ~shut_down
      /\ ~destroyed
      /\ batch # {}
      /\ StartUploads(batch)
      /\ UNCHANGED <<resolverVars, configVars, lifetimeVars, shut_down, initialized, gateVars, clients,
                     expired_sources, executed, dchecks_ok, isolation_infos,
                     send_requests,
                     now, calls, historyVars, last_call>>

\* The reports after the upload u has completed with outcome: a DOOMED report
\* is discarded; SUCCESS removes the batch; REMOVE_ENDPOINT puts it back to
\* QUEUED; FAILURE removes the reports that have used their attempts and puts
\* the others back to QUEUED.
CompleteUpload(rs, u, outcome) ==
  LET gone(r) ==
        /\ r.id \in u.ids
        /\ \/ r.status = "DOOMED"
           \/ outcome = "SUCCESS"
           \/ outcome = "FAILURE" /\ r.attempts >= MaxReportAttempts
      kept == SelectSeq(rs, LAMBDA r : ~gone(r))
  IN  [i \in 1..Len(kept) |->
         IF kept[i].id \in u.ids
         THEN [kept[i] EXCEPT !.status = "QUEUED"]
         ELSE kept[i]]

\* The uploader's completion callback; a shut-down agent absorbs it.
UploadComplete ==
  \E u \in uploads, outcome \in UploadOutcomes :
    /\ ~shut_down
    /\ ~destroyed
    /\ uploads' = uploads \ {u}
    /\ reports' = CompleteUpload(reports, u, outcome)
    /\ clients' = IF outcome = "REMOVE_ENDPOINT"
                  THEN clients \ {u.key} ELSE clients
    /\ UNCHANGED <<resolverVars, configVars, lifetimeVars, shut_down, initialized, gateVars,
                   expired_sources, executed, dchecks_ok, isolation_infos,
                   send_requests,
                   now, calls, historyVars, last_call>>

\* ------------------------------------------------------------------ facade
\* Mutant: the caller's key is passed on whatever the context says.
FixupNetworkIsolationKeyAsGiven(nik) == nik

FixupNetworkIsolationKey(nik) ==
  IF respect_network_isolation_key THEN nik ELSE EmptyNik

FetchAllClientsFromStore ==
  /\ store_load_pending' = TRUE
  /\ store_loads' = store_loads + 1

\* The assertions of FetchAllClientsFromStore, when it is reached.
FetchChecked(st) ==
  IF ~persisted \/ started_loading_from_store THEN st
  ELSE DCheck(st, persisted /\ ~st.initialized)

\* Mutant: started_loading_from_store_ is not consulted.
FetchAllClientsFromStoreAlways ==
  IF ~persisted
  THEN UNCHANGED <<started_loading_from_store, store_load_pending, store_loads>>
  ELSE /\ started_loading_from_store' = TRUE
       /\ FetchAllClientsFromStore

\* Mutant: IsClientDataPersisted() is not consulted.
FetchAllClientsFromStoreWithoutStore ==
  IF started_loading_from_store
  THEN UNCHANGED <<started_loading_from_store, store_load_pending, store_loads>>
  ELSE /\ started_loading_from_store' = TRUE
       /\ FetchAllClientsFromStore

FetchAllClientsFromStoreIfNecessary ==
  IF ~persisted \/ started_loading_from_store
  THEN UNCHANGED <<started_loading_from_store, store_load_pending, store_loads>>
  ELSE /\ started_loading_from_store' = TRUE
       /\ FetchAllClientsFromStore

\* Mutant: shut_down_ is not consulted.
DoOrBacklogTaskIgnoringShutdown(task) ==
  /\ FetchAllClientsFromStoreIfNecessary
  /\ IF ~initialized
     THEN Install([Ctx EXCEPT !.task_backlog = Append(@, task)])
     ELSE Install(RunTask(Ctx, task))

\* Mutant: the task runs at once whether or not the load has completed.
DoOrBacklogTaskNeverDeferring(task) ==
  IF shut_down
  THEN UNCHANGED <<gateVars, cacheVars>>
  ELSE /\ FetchAllClientsFromStoreIfNecessary
       /\ Install(RunTask(Ctx, task))

\* Mutant: the task is deferred whether or not the service is initialized.
DoOrBacklogTaskAlwaysDeferring(task) ==
  IF shut_down
  THEN UNCHANGED <<gateVars, cacheVars>>
  ELSE /\ FetchAllClientsFromStoreIfNecessary
       /\ Install([FetchChecked(Ctx) EXCEPT !.task_backlog = Append(@, task)])

DoOrBacklogTask(task) ==
  IF shut_down
  THEN UNCHANGED <<gateVars, cacheVars>>
  ELSE /\ FetchAllClientsFromStoreIfNecessary
       /\ IF ~initialized
          THEN Install([FetchChecked(Ctx) EXCEPT
                          !.task_backlog = Append(@, task)])
          ELSE Install(RunTask(FetchChecked(Ctx), task))

\* base::JSONReader::Read(json, JSON_PARSE_RFC, max_depth) yields a value.
JSONReaderRead(json, max_depth) ==
  json.well_formed /\ json.depth <= max_depth

\* Mutant: the header is not rejected for its size alone at the limit.
HeaderTooLargeAtLimit(size) == size >= kMaxJsonSize

\* header_string.size() > kMaxJsonSize
HeaderTooLarge(size) == size > kMaxJsonSize

\* Mutant: the header is parsed as it came.
WithoutBrackets(json) == json

\* "[" + header_string + "]"
InBrackets(json) == [json EXCEPT !.depth = @ + 1]

\* Mutant: the header is gated whatever the parser says.
HeaderParsesAlways(json) == TRUE

\* The header, in brackets, parses within kMaxJsonDepth.
HeaderParses(json) == JSONReaderRead(InBrackets(json), kMaxJsonDepth)

\* Mutant: the sanitized URL is not checked.
CanQueueWithoutUrlCheck(can_queue, url_valid) == can_queue

\* The delegate allows the report and its sanitized URL is valid.
CanQueue(can_queue, url_valid) == can_queue /\ url_valid

\* What the caller passed; the fields a call does not take hold NoInput.
CallInput(op, can_queue, url_valid, size, json, nik) ==
  [op |-> op, can_queue |-> can_queue, url_valid |-> url_valid,
   size |-> size, json |-> json, nik |-> nik]

Call(input) ==
  /\ ~destroyed
  /\ calls < MaxCalls
  /\ calls' = calls + 1
  /\ last_call' = input

Dropped == UNCHANGED <<gateVars, cacheVars, issued>>

\* A gated call whose input passed validation.
Gated(task) ==
  /\ issued' = Append(issued, task.id)
  /\ DoOrBacklogTask(task)

QueueReport ==
  \E can_queue \in BOOLEAN, url_valid \in BOOLEAN :
    /\ calls < MaxCalls
    /\ IF ~CanQueue(can_queue, url_valid)
       THEN /\ Call(CallInput("QueueReport", can_queue, url_valid, NoInput,
                              NoInput, NoInput))
            /\ Dropped
       ELSE \E source \in Sources \cup {NoSource}, page \in Pages,
               group \in Groups :
              /\ source # NoSource =>
                   (page.origin = SourceOrigin /\ page.nik = "k1")
              /\ Call(CallInput("QueueReport", can_queue, url_valid, NoInput,
                                NoInput, page.nik))
              /\ Gated(Task("QueueReport", calls + 1, source,
                            FixupNetworkIsolationKey(page.nik), page.origin,
                            group, now, 0, {}, {}, NoInput))
    /\ UNCHANGED <<resolverVars, configVars, lifetimeVars, shut_down, initialized, agentVars, now,
                   shutdown_call, loaded_at>>

ProcessReportToHeader ==
  \E size \in HeaderSizes, json \in HeaderJsons :
    /\ calls < MaxCalls
    /\ IF HeaderTooLarge(size)
       THEN /\ Call(CallInput("ProcessReportToHeader", NoInput, NoInput,
                              size, json, NoInput))
            /\ Dropped
       ELSE IF ~HeaderParses(json)
       THEN /\ Call(CallInput("ProcessReportToHeader", NoInput, NoInput,
                              size, json, NoInput))
            /\ Dropped
       ELSE \E page \in Pages, group \in Groups, max_age \in {0, 1} :
              /\ Call(CallInput("ProcessReportToHeader", NoInput, NoInput,
                                size, json, page.nik))
              /\ Gated(Task("ProcessReportToHeader", calls + 1, NoSource,
                            FixupNetworkIsolationKey(page.nik), page.origin,
                            group, 0, max_age, {}, {}, NoInput))
    /\ UNCHANGED <<resolverVars, configVars, lifetimeVars, shut_down, initialized, agentVars, now,
                   shutdown_call, loaded_at>>

SetDocumentReportingEndpoints ==
  \E source \in Sources, nik \in NIKs, group \in Groups :
    /\ Call(CallInput("SetDocumentReportingEndpoints", NoInput, NoInput,
                      NoInput, NoInput, nik))
    /\ Gated(
         Task("SetDocumentReportingEndpoints", calls + 1, source,
              FixupNetworkIsolationKey(nik), SourceOrigin, group, 0, 0, {},
              {}, IsolationInfo(nik)))
    /\ UNCHANGED <<resolverVars, configVars, lifetimeVars, shut_down, initialized, agentVars, now,
                   shutdown_call, loaded_at>>

RemoveBrowsingData ==
  \E mask \in FilterMasks, filter \in Filters :
    /\ Call(CallInput("RemoveBrowsingData", NoInput, NoInput, NoInput,
                      NoInput, NoInput))
    /\ Gated(
         Task("RemoveBrowsingData", calls + 1, NoSource, EmptyNik, "", "", 0,
              0, mask, filter, NoInput))
    /\ UNCHANGED <<resolverVars, configVars, lifetimeVars, shut_down, initialized, agentVars, now,
                   shutdown_call, loaded_at>>

RemoveAllBrowsingData ==
  \E mask \in Masks :
    /\ Call(CallInput("RemoveAllBrowsingData", NoInput, NoInput, NoInput,
                      NoInput, NoInput))
    /\ Gated(
         Task("RemoveAllBrowsingData", calls + 1, NoSource, EmptyNik, "", "",
              0, 0, mask, {}, NoInput))
    /\ UNCHANGED <<resolverVars, configVars, lifetimeVars, shut_down, initialized, agentVars, now,
                   shutdown_call, loaded_at>>

\* ReportingDeliveryAgent::SendReportsForSource: flushes the QUEUED reports of
\* the source at once; an agent that was shut down starts nothing.
SendReportsForSource(source) ==
  LET batch == {i \in 1..Len(reports) :
                  /\ reports[i].source = source
                  /\ Deliverable(reports[i])}
  IN  /\ send_requests' = Append(send_requests, source)
      /\ IF shut_down \/ batch = {}
         THEN UNCHANGED <<reports, uploads>>
         ELSE StartUploads(batch)

SendReportsAndRemoveSource ==
  \E source \in Sources :
    /\ Call(CallInput("SendReportsAndRemoveSource", NoInput, NoInput,
                      NoInput, NoInput, NoInput))
    /\ SendReportsForSource(source)
    /\ expired_sources' = SetExpiredSource(Ctx, source).expired_sources
    /\ UNCHANGED <<resolverVars, configVars, lifetimeVars, shut_down, initialized, gateVars, clients,
                   executed, dchecks_ok, isolation_infos, now, historyVars>>

OnShutdown ==
  /\ ~shut_down
  /\ Call(CallInput("OnShutdown", NoInput, NoInput, NoInput, NoInput,
                    NoInput))
  /\ shut_down' = TRUE
  /\ shutdown_call' = calls + 1
  /\ UNCHANGED <<resolverVars, configVars, lifetimeVars, initialized, gateVars, cacheVars, agentVars, now,
                 issued, loaded_at>>

\* Mutant: the callback is bound to the service itself.
Unretained == TRUE

\* weak_factory_.GetWeakPtr(): the callback runs only while the service lives.
WeakPtr == ~destroyed

OnClientsLoaded ==
  /\ store_load_pending
  /\ WeakPtr
  /\ store_load_pending' = FALSE
  /\ LET st == ClientsLoaded(Ctx, store_clients)
     IN  Install(st) /\ initialized' = st.initialized
  /\ loaded_at' = calls
  /\ UNCHANGED <<resolverVars, configVars, lifetimeVars, shut_down, started_loading_from_store,
                 store_loads, agentVars, now, calls, issued, shutdown_call,
                 last_call>>

\* The store answers a service that is gone: the callback is dropped.
OnClientsLoadedDropped ==
  /\ store_load_pending
  /\ ~WeakPtr
  /\ store_load_pending' = FALSE
  /\ UNCHANGED <<resolverVars, configVars, lifetimeVars, shut_down, initialized,
                 started_loading_from_store, store_loads, task_backlog,
                 cacheVars, agentVars, now, calls, historyVars, last_call>>

\* ~ReportingServiceImpl
Destroy ==
  /\ ~destroyed
  /\ destroyed' = TRUE
  /\ flushes' = IF initialized THEN flushes + 1 ELSE flushes
  /\ UNCHANGED <<resolverVars, configVars, shut_down, initialized, gateVars, cacheVars,
                 agentVars, now, calls, historyVars, last_call>>

Tick ==
  /\ now < MaxTick
  /\ now' = now + 1
  /\ UNCHANGED <<resolverVars, configVars, lifetimeVars, shut_down, initialized, gateVars, cacheVars,
                 agentVars, calls, historyVars, last_call>>

\* ---------------------------------------------------- MockHostResolverBase
\* MockHostResolverBase (net/dns/mock_host_resolver.cc): the resolver of the
\* tests, its request objects and the ResolveNow posted_tasks it posts.

NoRv == "none"                  \* Start has not returned
NoFailure == "none"             \* no assertion has failed
NoCache == [null |-> TRUE, entries |-> {}]    \* cache_ is null
EmptyCache == [null |-> FALSE, entries |-> {}] \* std::make_unique<HostCache>
NoRequests == [i \in {} |-> 0]   \* requests_ is empty

IPLiteral == "1.2.3.4"
InvalidHost == "bad host"
MockHosts == {IPLiteral, "ok.test", "fail.test", InvalidHost}
RuleSources == {"ANY", "SYSTEM", "DNS", "MULTICAST_DNS"}
RequestSources == {"ANY", "LOCAL_ONLY"}
CacheUsages == {"ALLOWED", "STALE_ALLOWED", "DISALLOWED"}
QueryTypes == {"UNSPECIFIED", "AAAA"}

\* What a caller asks for: the host that resolves, with each source, and
\* the other hosts once each.
RequestInputs ==
  {p \in [host : MockHosts, dns_query_type : QueryTypes,
          source : RequestSources, cache_usage : CacheUsages] :
     /\ p.dns_query_type = "UNSPECIFIED"
     /\ p.cache_usage = "ALLOWED"
     /\ p.host = "ok.test" \/ p.source = "ANY"}

RequestIds == 1..MaxRequests

\* IPAddress::AssignFromIPLiteral
IsIPLiteral(host) == host = IPLiteral

\* AddressFamilyToDnsQueryType(GetAddressFamily(ip_address))
LiteralQueryType(host) == "A"

IsValidDNSDomain(host) == host # InvalidHost

\* The rules the test installed: RuleBasedHostResolverProc::Resolve.
RuleResolve(host) ==
  IF host = "ok.test" THEN "OK" ELSE "ERR_NAME_NOT_RESOLVED"

\* HostResolver::SquashErrorCode
SquashErrorCode(error) ==
  IF error \in {"OK", "ERR_IO_PENDING", "ERR_NAME_NOT_RESOLVED",
                "ERR_DNS_NAME_HTTPS_ONLY"}
    THEN error
    ELSE "ERR_NAME_NOT_RESOLVED"

\* DnsQueryTypeToAddressFamily followed by AddressFamilyToDnsQueryType
FamilyQueryType(dns_query_type) ==
  IF dns_query_type \in {"A", "AAAA"} THEN dns_query_type ELSE "UNSPECIFIED"

CacheKey(host, dns_query_type, source) ==
  [host |-> host, dns_query_type |-> dns_query_type, source |-> source]

\* HostCache::Set: the entry replaces the one stored under the key.
CacheSet(entries, key, error, ttl) ==
  {e \in entries : e.key # key}
    \cup {[key |-> key, error |-> error, ttl |-> ttl]}

\* HostCache::LookupStale: the entry under the key, expired or not.
LookupStale(entries, key) == {e \in entries : e.key = key}

\* HostCache::Lookup: an entry whose time to live is over is not found.
Lookup(entries, key) == {e \in LookupStale(entries, key) : e.ttl > 0}

\* A request object nobody has created yet.
NoRequest ==
  [alive |-> "unborn", request_host |-> NoInput, dns_query_type |-> NoInput,
   source |-> NoInput, cache_usage |-> NoInput, id |-> 0, resolver |-> FALSE,
   complete |-> FALSE, callback |-> FALSE, error |-> "ERR_IO_PENDING",
   rv |-> NoRv, callback_runs |-> 0, ondemand |-> FALSE]

\* RequestImpl::RequestImpl
RequestImpl(host, dns_query_type, source, cache_usage) ==
  [NoRequest EXCEPT !.alive = "live", !.request_host = host,
                    !.dns_query_type = dns_query_type, !.source = source,
                    !.cache_usage = cache_usage, !.resolver = TRUE]

\* The functional view of the state the resolver's functions act on.
MockCtx ==
  [requests |-> requests, reqs |-> reqs, posted_tasks |-> posted_tasks,
   next_request_id |-> next_request_id, rules_map |-> rules_map,
   cache |-> cache, cache_invalidation_nums |-> cache_invalidation_nums,
   num_non_local_resolves |-> num_non_local_resolves, failed |-> failed]

\* A failed assertion ends the process: nothing but the failure is kept.
MockInstall(st) ==
  LET kept == IF st.failed # NoFailure
                THEN [MockCtx EXCEPT !.failed = st.failed]
                ELSE st
  IN  /\ requests' = kept.requests
      /\ reqs' = kept.reqs
      /\ posted_tasks' = kept.posted_tasks
      /\ next_request_id' = kept.next_request_id
      /\ rules_map' = kept.rules_map
      /\ cache' = kept.cache
      /\ cache_invalidation_nums' = kept.cache_invalidation_nums
      /\ num_non_local_resolves' = kept.num_non_local_resolves
      /\ failed' = kept.failed

\* DCHECK / CHECK
MockCheck(st, cond, where) ==
  IF cond \/ st.failed # NoFailure THEN st ELSE [st EXCEPT !.failed = where]

\* rules_map_.find(source) != rules_map_.end()
HasRules(rules, source) == source \in rules

\* MockHostResolverBase::ResolveProc
ResolveProc(st, host, dns_query_type, source) ==
  IF ~HasRules(st.rules_map, source)
    THEN [st |-> MockCheck(st, FALSE, "ResolveProc"), rv |-> NoRv]
    ELSE
      LET rv == RuleResolve(host)
          key == CacheKey(host, FamilyQueryType(dns_query_type), source)
          counted == [st EXCEPT !.num_non_local_resolves = @ + 1]
          numbered ==
            IF rv = "OK" /\ initial_cache_invalidation_num > 0
              THEN [counted EXCEPT !.cache_invalidation_nums =
                      {n \in @ : n.key # key}
                        \cup {[key |-> key,
                               num |-> initial_cache_invalidation_num]}]
              ELSE counted
          stored ==
            IF st.cache = NoCache
              THEN counted
              ELSE [numbered EXCEPT !.cache.entries =
                      CacheSet(@, key, rv,
                               IF rv = "OK" THEN kCacheEntryTTLSeconds
                                            ELSE 0)]
      IN  [st |-> stored, rv |-> rv]

\* Mutant: the cache is searched under the source of the request.
EffectiveSourceAsGiven(source) == source

\* Local-only requests search the cache for non-local-only results.
EffectiveSource(source) == IF source = "LOCAL_ONLY" THEN "ANY" ELSE source

\* Mutant: a hit leaves the counter of the key alone.
CountDownNever(st, key, e) == st

\* ResolveFromIPLiteralOrCache on a hit: the cache_invalidation_nums_ entry
\* of the key counts down, and at 0 the cache entry is stored again with no
\* time to live and the counter is erased.
CountDown(st, key, e) ==
  LET nums == {n \in st.cache_invalidation_nums : n.key = key}
  IN  IF nums = {}
        THEN st
        ELSE
          LET n == CHOOSE x \in nums : TRUE
              checked ==
                MockCheck(st, 1 <= n.num, "ResolveFromIPLiteralOrCache")
          IN  IF n.num - 1 = 0
                THEN [checked EXCEPT
                        !.cache.entries = CacheSet(@, key, e.error, 0),
                        !.cache_invalidation_nums = @ \ {n}]
                ELSE [checked EXCEPT
                        !.cache_invalidation_nums =
                          (@ \ {n}) \cup {[n EXCEPT !.num = @ - 1]}]

\* MockHostResolverBase::ResolveFromIPLiteralOrCache
ResolveFromIPLiteralOrCache(st, host, dns_query_type, source, cache_usage) ==
  IF IsIPLiteral(host)
    THEN [st |-> st,
          rv |-> IF dns_query_type # "UNSPECIFIED"
                    /\ dns_query_type # LiteralQueryType(host)
                   THEN "ERR_NAME_NOT_RESOLVED"
                   ELSE "OK"]
    ELSE
      LET cache_allowed == cache_usage \in {"ALLOWED", "STALE_ALLOWED"}
          effective_source == EffectiveSource(source)
          key == CacheKey(host, dns_query_type, effective_source)
          cache_result ==
            IF st.cache = NoCache \/ ~cache_allowed
              THEN {}
              ELSE IF cache_usage = "STALE_ALLOWED"
                     THEN LookupStale(st.cache.entries, key)
                     ELSE Lookup(st.cache.entries, key)
      IN  IF cache_result = {}
            THEN [st |-> st, rv |-> "ERR_DNS_CACHE_MISS"]
            ELSE
              LET e == CHOOSE x \in cache_result : TRUE
              IN  [st |-> CountDown(st, key, e), rv |-> e.error]

\* RequestImpl::SetError
SetError(st, r, error) ==
  [MockCheck(st, ~st.reqs[r].complete, "SetError")
     EXCEPT !.reqs[r].error = error]

\* Mutant: the request is stored without an id of its own.
RegisterWithoutId(st, r) ==
  [st EXCEPT !.requests =
               [i \in DOMAIN @ \cup {st.next_request_id} |->
                  IF i = st.next_request_id THEN r ELSE @[i]],
             !.reqs[r].ondemand = ondemand_mode,
             !.posted_tasks = IF ondemand_mode
                         THEN @
                         ELSE Append(@, [id |-> st.next_request_id,
                                         from |-> "Resolve"])]

\* Mutant: the completion task is posted in on-demand mode too.
RegisterAlwaysPosting(st, r) ==
  LET id == st.next_request_id
  IN  [st EXCEPT !.next_request_id = id + 1,
                 !.reqs[r].id = id,
                 !.requests = [i \in DOMAIN @ \cup {id} |->
                                 IF i = id THEN r ELSE @[i]],
                 !.reqs[r].ondemand = ondemand_mode,
                 !.posted_tasks = Append(@, [id |-> id, from |-> "Resolve"])]

\* Resolve, "Store the request for asynchronous resolution": set_id, the
\* pending-request map and the posted ResolveNow task.
Register(st, r) ==
  LET id == st.next_request_id
      numbered ==
        [MockCheck(st, id > 0 /\ st.reqs[r].id = 0, "set_id")
           EXCEPT !.next_request_id = id + 1, !.reqs[r].id = id]
  IN  [numbered EXCEPT
         !.requests = [i \in DOMAIN @ \cup {id} |->
                         IF i = id THEN r ELSE @[i]],
         !.reqs[r].ondemand = ondemand_mode,
         !.posted_tasks = IF ondemand_mode
                     THEN @
                     ELSE Append(@, [id |-> id, from |-> "Resolve"])]

\* MockHostResolverBase::Resolve
Resolve(st, r) ==
  LET req == st.reqs[r]
      local == ResolveFromIPLiteralOrCache(st, req.request_host,
                                           req.dns_query_type, req.source,
                                           req.cache_usage)
      noted == SetError(local.st, r, local.rv)
  IN  IF local.rv # "ERR_DNS_CACHE_MISS" \/ req.source = "LOCAL_ONLY"
        THEN [st |-> noted, rv |-> SquashErrorCode(local.rv)]
        ELSE IF ~IsValidDNSDomain(req.request_host)
          THEN [st |-> SetError(noted, r, "ERR_NAME_NOT_RESOLVED"),
                rv |-> "ERR_NAME_NOT_RESOLVED"]
          ELSE IF synchronous_mode
            THEN LET proc == ResolveProc(noted, req.request_host,
                                         req.dns_query_type, req.source)
                 IN  [st |-> SetError(proc.st, r, proc.rv),
                      rv |-> SquashErrorCode(proc.rv)]
            ELSE [st |-> Register(noted, r), rv |-> "ERR_IO_PENDING"]

\* RequestImpl::Start
RequestStart(st, r) ==
  LET res == Resolve(MockCheck(st, st.reqs[r].resolver, "Start"), r)
      after == res.st.reqs[r]
      checked ==
        MockCheck(res.st,
                  /\ ~after.complete
                  /\ IF res.rv = "ERR_IO_PENDING" THEN after.id > 0
                                                  ELSE after.id = 0,
                  "Start")
  IN  [checked EXCEPT !.reqs[r].rv = res.rv,
                      !.reqs[r].callback = (res.rv = "ERR_IO_PENDING"),
                      !.reqs[r].complete = (res.rv # "ERR_IO_PENDING")]

\* RequestImpl::OnAsyncCompleted
OnAsyncCompleted(st, r, id, error) ==
  LET req == st.reqs[r]
      checked ==
        MockCheck(st,
                  /\ req.id = id
                  /\ req.error # "ERR_IO_PENDING"
                  /\ error \in {"OK", "ERR_NAME_NOT_RESOLVED",
                                "ERR_DNS_NAME_HTTPS_ONLY"}
                  /\ ~req.complete
                  /\ req.callback,
                  "OnAsyncCompleted")
  IN  [checked EXCEPT !.reqs[r].id = 0,
                      !.reqs[r].complete = TRUE,
                      !.reqs[r].callback = FALSE,
                      !.reqs[r].callback_runs = @ + 1]

\* Mutant: the request stays in the map while it is completed.
ResolveNowKeeping(st, id) ==
  IF id \notin DOMAIN st.requests
    THEN st
    ELSE
      LET r == st.requests[id]
          req == st.reqs[r]
          proc == ResolveProc(st, req.request_host, req.dns_query_type,
                              req.source)
      IN  OnAsyncCompleted(SetError(proc.st, r, proc.rv), r, id,
                           SquashErrorCode(proc.rv))

\* MockHostResolverBase::ResolveNow
ResolveNow(st, id) ==
  IF id \notin DOMAIN st.requests
    THEN st
    ELSE
      LET r == st.requests[id]
          req == st.reqs[r]
          erased == [st EXCEPT !.requests = [i \in DOMAIN @ \ {id} |-> @[i]]]
          proc == ResolveProc(erased, req.request_host, req.dns_query_type,
                              req.source)
      IN  OnAsyncCompleted(SetError(proc.st, r, proc.rv), r, id,
                           SquashErrorCode(proc.rv))

\* Mutant: the request stays in the map.
DetachRequestKeeping(st, id) == st

\* MockHostResolverBase::DetachRequest
DetachRequest(st, id) ==
  [MockCheck(st, id \in DOMAIN st.requests, "DetachRequest")
     EXCEPT !.requests = [i \in DOMAIN @ \ {id} |-> @[i]]]

\* Mutant: the requests are dropped from the map without being told.
DetachNone(st) == st

\* OnShutdown, "Cancel all pending requests": DetachFromResolver on each.
DetachFromResolverAll(st) ==
  [st EXCEPT !.reqs =
     [r \in RequestIds |->
        IF \E i \in DOMAIN st.requests : st.requests[i] = r
          THEN [@[r] EXCEPT !.id = 0, !.resolver = FALSE]
          ELSE @[r]]]

\* The calls of the test and the task runner.

\* MockHostResolverBase::CreateRequest and RequestImpl::Start on the request
\* it returns: the caller starts each request as soon as it has created it.
Start ==
  \E r \in RequestIds, p \in RequestInputs :
    /\ failed = NoFailure
    /\ reqs[r].alive = "unborn"
    /\ \A q \in RequestIds : q < r => reqs[q].alive # "unborn"
    /\ MockInstall(RequestStart(
         [MockCtx EXCEPT !.reqs[r] = RequestImpl(p.host, p.dns_query_type,
                                                 p.source, p.cache_usage)],
         r))
    /\ UNCHANGED <<reportingVars, mockConfigVars, loads, on_shutdown_called>>

\* RequestImpl::~RequestImpl
DestroyRequest ==
  \E r \in RequestIds :
    /\ failed = NoFailure
    /\ reqs[r].alive = "live"
    /\ LET req == reqs[r]
           detached == IF req.id > 0 /\ req.resolver
                         THEN DetachRequest(MockCtx, req.id)
                         ELSE MockCtx
       IN  MockInstall([detached EXCEPT
                          !.reqs[r] = [NoRequest EXCEPT
                                         !.alive = "destroyed",
                                         !.rv = req.rv,
                                         !.callback_runs =
                                           req.callback_runs]])
    /\ UNCHANGED <<reportingVars, mockConfigVars, loads, on_shutdown_called>>

\* The task runner runs the ResolveNow task posted first.
RunPostedTask ==
  /\ failed = NoFailure
  /\ posted_tasks # <<>>
  /\ MockInstall(ResolveNow([MockCtx EXCEPT !.posted_tasks = Tail(@)],
                            Head(posted_tasks).id))
  /\ UNCHANGED <<reportingVars, mockConfigVars, loads, on_shutdown_called>>

\* MockHostResolverBase::ResolveAllPending
ResolveAllPending ==
  /\ failed = NoFailure
  /\ ondemand_mode
  /\ DOMAIN requests # {}
  /\ Len(posted_tasks) + Cardinality(DOMAIN requests) <= MaxPosted
  /\ LET ids == DOMAIN requests
         Ascending[n \in 0..MaxRequests + 1] ==
           IF n = 0
             THEN <<>>
             ELSE IF n \in ids
                    THEN Append(Ascending[n - 1],
                                [id |-> n, from |-> "ResolveAllPending"])
                    ELSE Ascending[n - 1]
     IN  posted_tasks' = posted_tasks \o Ascending[MaxRequests + 1]
  /\ UNCHANGED <<reportingVars, requests, reqs, next_request_id, rules_map,
                 cache, cache_invalidation_nums, num_non_local_resolves,
                 failed, mockConfigVars, loads, on_shutdown_called>>

\* MockHostResolverBase::ResolveOnlyRequestNow
ResolveOnlyRequestNow ==
  /\ failed = NoFailure
  /\ Cardinality(DOMAIN requests) = 1
  /\ MockInstall(ResolveNow(MockCtx, CHOOSE i \in DOMAIN requests : TRUE))
  /\ UNCHANGED <<reportingVars, mockConfigVars, loads, on_shutdown_called>>

\* MockHostResolverBase::OnShutdown
MockOnShutdown ==
  /\ failed = NoFailure
  /\ MockInstall([DetachFromResolverAll(MockCtx) EXCEPT
                    !.requests = NoRequests,
                    !.rules_map = {},
                    !.cache = NoCache])
  /\ on_shutdown_called' = TRUE
  /\ UNCHANGED <<reportingVars, mockConfigVars, loads>>

\* MockHostResolverBase::LoadIntoCache.  DCHECK(cache_) ends the process in
\* a build with DCHECKs and is compiled out in a build without them.
LoadIntoCache ==
  \E p \in RequestInputs, dcheck_is_on \in BOOLEAN :
    /\ failed = NoFailure
    /\ loads < MaxLoads
    /\ loads' = loads + 1
    /\ LET checked ==
             IF dcheck_is_on
               THEN MockCheck(MockCtx, cache # NoCache, "LoadIntoCache")
               ELSE MockCtx
           local == ResolveFromIPLiteralOrCache(checked, p.host,
                                                p.dns_query_type, p.source,
                                                p.cache_usage)
       IN  IF local.rv # "ERR_DNS_CACHE_MISS" \/ ~IsValidDNSDomain(p.host)
             THEN MockInstall(local.st)
             ELSE MockInstall(ResolveProc(local.st, p.host, p.dns_query_type,
                                          p.source).st)
    /\ UNCHANGED <<reportingVars, mockConfigVars, on_shutdown_called>>

\* set_synchronous_mode: the test chooses the mode before its first request.
SetSynchronousMode ==
  \E is_synchronous \in BOOLEAN :
    /\ failed = NoFailure
    /\ synchronous_mode # is_synchronous
    /\ reqs[1].alive = "unborn"
    /\ synchronous_mode' = is_synchronous
    /\ UNCHANGED <<reportingVars, requests, reqs, posted_tasks, next_request_id,
                   rules_map, cache, cache_invalidation_nums,
                   num_non_local_resolves, failed, ondemand_mode,
                   initial_cache_invalidation_num, loads, on_shutdown_called>>

\* set_ondemand_mode: the test chooses the mode before its first request.
SetOndemandMode ==
  \E is_ondemand \in BOOLEAN :
    /\ failed = NoFailure
    /\ ondemand_mode # is_ondemand
    /\ reqs[1].alive = "unborn"
    /\ ondemand_mode' = is_ondemand
    /\ UNCHANGED <<reportingVars, requests, reqs, posted_tasks, next_request_id,
                   rules_map, cache, cache_invalidation_nums,
                   num_non_local_resolves, failed, synchronous_mode,
                   initial_cache_invalidation_num, loads, on_shutdown_called>>

\* MockHostResolverBase::MockHostResolverBase
MockHostResolverBase(use_caching, cache_invalidation_num) ==
  /\ synchronous_mode = FALSE
  /\ ondemand_mode = FALSE
  /\ initial_cache_invalidation_num = cache_invalidation_num
  /\ next_request_id = 1
  /\ num_non_local_resolves = 0
  /\ rules_map = RuleSources
  /\ cache = IF use_caching THEN EmptyCache ELSE NoCache
  /\ cache_invalidation_nums = {}
  /\ requests = NoRequests
  /\ reqs = [r \in RequestIds |-> NoRequest]
  /\ posted_tasks = <<>>
  /\ loads = 0
  /\ on_shutdown_called = FALSE
  /\ failed = NoFailure

\* ReportingServiceImpl::ReportingServiceImpl
ReportingServiceImpl ==
  /\ persisted \in BOOLEAN
  /\ respect_network_isolation_key \in BOOLEAN
  /\ store_clients \in (IF persisted THEN StoreContents ELSE {{}})
  /\ shut_down = FALSE
  /\ started_loading_from_store = FALSE
  /\ initialized = ~persisted
  /\ task_backlog = <<>>
  /\ store_load_pending = FALSE
  /\ store_loads = 0
  /\ reports = <<>>
  /\ clients = {}
  /\ expired_sources = {}
  /\ uploads = {}
  /\ send_requests = <<>>
  /\ now = 0
  /\ calls = 0
  /\ issued = <<>>
  /\ shutdown_call = 0
  /\ loaded_at = -1
  /\ last_call = CallInput(NoInput, NoInput, NoInput, NoInput, NoInput,
                           NoInput)
  /\ executed = <<>>
  /\ dchecks_ok = TRUE
  /\ isolation_infos = {}
  /\ destroyed = FALSE
  /\ flushes = 0

Init == ReportingServiceImpl /\ MockHostResolverBase(FALSE, 0)

Next ==
  \/ QueueReport
  \/ ProcessReportToHeader
  \/ SetDocumentReportingEndpoints
  \/ RemoveBrowsingData
  \/ RemoveAllBrowsingData
  \/ SendReportsAndRemoveSource
  \/ OnShutdown
  \/ OnClientsLoaded
  \/ DeliveryTick

Spec == Init /\ [][Next]_vars

\* The service over a persistent store that holds no client, with a clock
\* that advances between the steps.
InitClock == Init /\ persisted /\ store_clients = {}

NextClock == Next \/ Tick

ClockSpec == InitClock /\ [][NextClock]_vars

\* The service over a persistent store that holds an endpoint group, with
\* the uploader completing the uploads the delivery agent starts.
InitDelivery == Init /\ persisted /\ store_clients = {StoredClient}

NextDelivery == Next \/ UploadComplete

DeliverySpec == InitDelivery /\ [][NextDelivery]_vars

\* The service with its destruction.
NextLifetime == Next \/ Destroy \/ OnClientsLoadedDropped

LifetimeSpec == Init /\ [][NextLifetime]_vars

\* The mock resolver, its requests and its task runner.
InitResolver ==
  /\ ReportingServiceImpl
  /\ ~persisted /\ ~respect_network_isolation_key
  /\ \E use_caching \in BOOLEAN, cache_invalidation_num \in 0..1 :
       /\ use_caching \/ cache_invalidation_num <= 0
       /\ MockHostResolverBase(use_caching, cache_invalidation_num)

NextResolver ==
  \/ Start
  \/ DestroyRequest
  \/ RunPostedTask
  \/ ResolveAllPending
  \/ ResolveOnlyRequestNow
  \/ MockOnShutdown
  \/ LoadIntoCache
  \/ SetSynchronousMode
  \/ SetOndemandMode

ResolverSpec == InitResolver /\ [][NextResolver]_vars

\* The mock resolver with a cache whose entries are invalidated after
\* cache_invalidation_num hits.
InvalidationNums == {1, 2}

InitInvalidation ==
  /\ ReportingServiceImpl
  /\ ~persisted /\ ~respect_network_isolation_key
  /\ \E cache_invalidation_num \in InvalidationNums :
       MockHostResolverBase(TRUE, cache_invalidation_num)

InvalidationSpec == InitInvalidation /\ [][NextResolver]_vars


\* ================================================================== claims
ExecIds(log) == [i \in 1..Len(log) |-> log[i].id]

TaskIds(tasks) == [i \in 1..Len(tasks) |-> tasks[i].id]

HasReport(rs, id) == \E i \in 1..Len(rs) : rs[i].id = id

\* The step in which the LoadReportingClients callback runs.
LoadCompletes == store_load_pending /\ ~store_load_pending'

\* The store load is pending on a service that is not shut down.
InLoadWindow == persisted /\ ~initialized /\ ~shut_down

LoadedBeforeShutdown ==
  loaded_at >= 0 /\ (shutdown_call = 0 \/ loaded_at < shutdown_call)

ShutdownDuringLoad ==
  /\ shutdown_call > 0
  /\ \E i \in 1..Len(issued) : issued[i] < shutdown_call
  /\ persisted
  /\ (loaded_at = -1 \/ loaded_at >= shutdown_call)

IssuedBeforeShutdown ==
  SelectSeq(issued, LAMBDA id : shutdown_call = 0 \/ id < shutdown_call)

RemovesReportsOf(t, origin) ==
  \/ t.op = "RemoveAllBrowsingData" /\ REPORTS \in t.mask
  \/ t.op = "RemoveBrowsingData" /\ REPORTS \in t.mask /\ origin \in t.filter

RemovesClient(t, c) ==
  \/ t.op = "RemoveAllBrowsingData" /\ CLIENTS \in t.mask
  \/ t.op = "RemoveBrowsingData" /\ CLIENTS \in t.mask /\ c.origin \in t.filter
  \/ /\ t.op = "ProcessReportToHeader"
     /\ t.max_age = 0
     /\ c = ClientKey(NoSource, t.origin, t.nik, t.group)

\* A gated call that is deferred: one task more in the backlog, cache untouched.
DeferredOnly ==
  /\ Len(task_backlog') = Len(task_backlog) + 1
  /\ SubSeq(task_backlog', 1, Len(task_backlog)) = task_backlog
  /\ task_backlog'[Len(task_backlog')].id = calls + 1
  /\ UNCHANGED <<reports, clients, expired_sources, executed, uploads>>

\* C1: once OnShutdown has been called, a later QueueReport,
\* ProcessReportToHeader, SetDocumentReportingEndpoints, RemoveBrowsingData or
\* RemoveAllBrowsingData (a call that is not SendReportsAndRemoveSource)
\* leaves the cache and the backlog unchanged and starts no store load.
C1_ShutdownDropsGatedCalls ==
  [][(shut_down /\ calls' # calls /\ send_requests' = send_requests)
       => UNCHANGED <<reports, clients, expired_sources, executed, uploads,
                      task_backlog, started_loading_from_store,
                      store_load_pending, store_loads, initialized>>]_vars

C1_Witness ==
  /\ shut_down
  /\ calls > shutdown_call
  /\ send_requests = <<>>
  /\ \E i \in 1..Len(issued) : issued[i] > shutdown_call
  /\ reports # <<>>

\* C2 as stated: while the load is pending on a service that is not shut
\* down a valid gated call is only appended to the backlog, no report is in
\* the cache before the load completes, and every report that was queued in
\* that window is in the cache right after the load-completion step.
C2_BackloggedReportVisibleAfterLoad ==
  [][/\ (InLoadWindow /\ issued' # issued) => DeferredOnly
     /\ InLoadWindow => reports = <<>>
     /\ (LoadCompletes /\ ~shut_down) =>
          \A i \in 1..Len(task_backlog) :
            task_backlog[i].op = "QueueReport" =>
              HasReport(reports', task_backlog[i].id)]_vars

\* C2 amended: as C2, but a backlogged report is in the cache right after
\* the load-completion step provided no browsing-data removal backlogged
\* after it covers its origin with the REPORTS bit and fewer than
\* MaxReportCount reports were backlogged after it.
C2_BackloggedReportVisibleUnlessRemoved ==
  [][/\ (InLoadWindow /\ issued' # issued) => DeferredOnly
     /\ InLoadWindow => reports = <<>>
     /\ (LoadCompletes /\ ~shut_down) =>
          \A i \in 1..Len(task_backlog) :
            (/\ task_backlog[i].op = "QueueReport"
             /\ \A j \in (i + 1)..Len(task_backlog) :
                  ~RemovesReportsOf(task_backlog[j], task_backlog[i].origin)
             /\ Cardinality({j \in (i + 1)..Len(task_backlog) :
                               task_backlog[j].op = "QueueReport"})
                  < MaxReportCount)
              => HasReport(reports', task_backlog[i].id)]_vars

C2_Witness ==
  /\ persisted
  /\ LoadedBeforeShutdown
  /\ \E i \in 1..Len(reports) : reports[i].id <= loaded_at
  /\ \E i \in 1..Len(executed) : executed[i].id > loaded_at

\* C3: when the load completes on a service that is not shut down, the
\* backlogged tasks run in the order in which they were issued.
C3_BacklogReplayedInIssueOrder ==
  [][(LoadCompletes /\ ~shut_down) =>
       /\ ExecIds(executed') = ExecIds(executed) \o TaskIds(task_backlog)
       /\ ExecIds(executed') = issued]_vars

C3_Witness ==
  /\ LoadedBeforeShutdown
  /\ loaded_at = 3
  /\ Len(executed) = 3
  /\ reports # <<>>
  /\ clients # store_clients

\* C4: on load completion the loaded endpoint groups are in the cache before
\* any backlogged task runs: each replayed task sees every loaded group that
\* no earlier backlogged task removed, and a backlogged removal of all
\* CLIENTS data that runs last leaves no endpoint group in the cache.
C4_LoadedClientsInstalledBeforeBacklog ==
  [][(LoadCompletes /\ ~shut_down) =>
       /\ Len(executed') = Len(executed) + Len(task_backlog)
       /\ \A k \in 1..Len(task_backlog) :
            {c \in store_clients :
               \A j \in 1..(k - 1) : ~RemovesClient(task_backlog[j], c)}
              \subseteq executed'[Len(executed) + k].saw
       /\ (/\ task_backlog # <<>>
           /\ task_backlog[Len(task_backlog)].op = "RemoveAllBrowsingData"
           /\ CLIENTS \in task_backlog[Len(task_backlog)].mask)
            => clients' = {}]_vars

C4_Witness ==
  /\ LoadedBeforeShutdown
  /\ store_clients # {}
  /\ loaded_at >= 1
  /\ executed # <<>>
  /\ executed[1].saw = store_clients
  /\ clients = {}

\* C5: when there is no store, or the store load completed before
\* OnShutdown, the tasks run against the cache are exactly the valid gated
\* calls issued before OnShutdown, each once, and the backlog is empty.
C5_EachTaskExecutedExactlyOnce ==
  (~persisted \/ LoadedBeforeShutdown) =>
    /\ ExecIds(executed) = IssuedBeforeShutdown
    /\ task_backlog = <<>>

C5_Witness ==
  /\ persisted
  /\ shut_down
  /\ loaded_at = 1
  /\ loaded_at < shutdown_call
  /\ Len(executed) = 2
  /\ Len(issued) = 2

\* C6: when OnShutdown is called while the store load is pending, no
\* backlogged task is ever run: no report reaches the cache and no upload is
\* started, before or after the load completes.
C6_ShutdownDuringLoadRunsNothing ==
  ShutdownDuringLoad =>
    /\ executed = <<>>
    /\ reports = <<>>
    /\ uploads = {}

C6_Witness ==
  /\ ShutdownDuringLoad
  /\ loaded_at >= shutdown_call
  /\ send_requests # <<>>
  /\ \E i \in 1..Len(task_backlog) :
       task_backlog[i].op = "QueueReport" /\ task_backlog[i].source \in Sources

\* C7: after the load-completion step on a service that was shut down during
\* the load, the backlog holds no deferred task.
C7_BacklogDiscardedOnShutdown ==
  (shut_down /\ ShutdownDuringLoad /\ loaded_at >= shutdown_call)
    => task_backlog = <<>>

\* C8: after OnShutdown no public call, SendReportsAndRemoveSource included,
\* asks the delivery agent to send reports or marks a source expired.
C8_SendReportsGatedByShutdown ==
  [][(shut_down /\ calls' # calls)
       => UNCHANGED <<send_requests, expired_sources>>]_vars

\* C9: when SendReportsAndRemoveSource(S) asks the delivery agent to send,
\* every QueueReport and SetDocumentReportingEndpoints call for S issued
\* before it has already taken effect on the cache: none is still waiting in
\* the backlog.
C9_SourceTasksAppliedBeforeSend ==
  [][(send_requests' # send_requests) =>
       \A i \in 1..Len(task_backlog) :
         task_backlog[i].source # send_requests'[Len(send_requests')]]_vars

\* C10: no store load is started at construction; a load is started at most
\* once, only with a persistent store, and only by the first gated call with
\* valid input on a service that is not shut down.
C10_StoreLoadStartedOnceByFirstTask ==
  /\ store_loads = 0
  /\ [][/\ store_loads' \in {store_loads, store_loads + 1}
        /\ store_loads' # store_loads =>
             /\ persisted
             /\ store_loads = 0
             /\ ~shut_down
             /\ issued = <<>>
             /\ Len(issued') = 1]_vars

C10_Witness ==
  /\ store_loads = 1
  /\ Len(issued) >= 2
  /\ shutdown_call = 0
  /\ store_load_pending

\* The latest call was a QueueReport that passed its checks on a service that
\* was not shut down.
QueueReportGated ==
  /\ calls' # calls
  /\ last_call'.op = "QueueReport"
  /\ issued' # issued
  /\ ~shut_down

\* C11: the queued tick of a report is the clock read when QueueReport was
\* called: a deferred QueueReport holds that reading in its task, and the
\* report the replay adds to the cache carries the reading of its task, not
\* the clock at the replay.
C11_QueuedTickReadAtCall ==
  [][/\ QueueReportGated =>
          IF Len(task_backlog') > Len(task_backlog)
          THEN task_backlog'[Len(task_backlog')].queued = now
          ELSE /\ reports' # <<>>
               /\ reports'[Len(reports')].id = calls + 1
               /\ reports'[Len(reports')].queued = now
     /\ (LoadCompletes /\ ~shut_down) =>
          \A i \in 1..Len(task_backlog) : \A j \in 1..Len(reports') :
            (task_backlog[i].op = "QueueReport"
               /\ reports'[j].id = task_backlog[i].id)
              => reports'[j].queued = task_backlog[i].queued]_vars

\* Two reports replayed from the backlog in one step carry different ticks.
C11_Witness ==
  /\ LoadedBeforeShutdown
  /\ \E i, j \in 1..Len(reports) :
       /\ reports[i].id <= loaded_at
       /\ reports[j].id <= loaded_at
       /\ reports[i].queued < reports[j].queued

\* Everything but the call counter and the record of the call's arguments.
serviceVars ==
  <<configVars, lifetimeVars, shut_down, initialized, gateVars, cacheVars, agentVars, now,
    historyVars>>

\* The step is a call of op.
CallOf(op) == calls' # calls /\ last_call'.op = op

\* The step is a call of op that passed its checks on a service that was not
\* shut down, and went through the gate.
PassedOn(op) == CallOf(op) /\ ~shut_down /\ issued' = Append(issued, calls + 1)

\* C12: a QueueReport that the delegate denies, or whose sanitized URL is not
\* valid, changes nothing: no report, no task in the backlog, no store load.
C12_DeniedQueueReportChangesNothing ==
  [][(CallOf("QueueReport")
        /\ (~last_call'.can_queue \/ ~last_call'.url_valid))
       => UNCHANGED serviceVars]_vars

\* A QueueReport with an invalid URL was the first call on a service with a
\* persistent store.
C12_Witness ==
  /\ last_call.op = "QueueReport"
  /\ last_call.can_queue /\ ~last_call.url_valid
  /\ persisted /\ ~shut_down
  /\ calls = 1 /\ store_loads = 0 /\ task_backlog = <<>>

\* C13: a ProcessReportToHeader whose header is longer than kMaxJsonSize, is
\* not JSON, or nests deeper than the parser allows even before the brackets
\* are added, changes nothing, whatever state the service is in.
C13_InvalidHeaderChangesNothing ==
  [][(CallOf("ProcessReportToHeader")
        /\ (\/ last_call'.size > kMaxJsonSize
            \/ ~last_call'.json.well_formed
            \/ last_call'.json.depth > kMaxJsonDepth))
       => UNCHANGED serviceVars]_vars

\* A header that is not JSON was the first call on a service with a
\* persistent store.
C13_Witness ==
  /\ last_call.op = "ProcessReportToHeader"
  /\ last_call.size <= kMaxJsonSize
  /\ ~last_call.json.well_formed
  /\ persisted /\ ~shut_down
  /\ calls = 1 /\ store_loads = 0 /\ task_backlog = <<>>

\* The nik that the step handed to the gate: that of the task appended to the
\* backlog, or of the task run against the cache.
NikPassedOn ==
  IF Len(task_backlog') > Len(task_backlog)
  THEN task_backlog'[Len(task_backlog')].nik
  ELSE executed'[Len(executed')].nik

NikCalls ==
  {"QueueReport", "ProcessReportToHeader", "SetDocumentReportingEndpoints"}

\* C14: the key that QueueReport, ProcessReportToHeader and
\* SetDocumentReportingEndpoints hand to the cache and the header parser is
\* the empty key when the context does not respect partition keys, and the
\* caller's key when it does; so no report is stored under a caller's key when
\* keys are not respected.
C14_NetworkIsolationKeyFixedUp ==
  [][/\ \A op \in NikCalls :
          PassedOn(op) =>
            NikPassedOn = IF respect_network_isolation_key
                          THEN last_call'.nik ELSE EmptyNik
     /\ ~respect_network_isolation_key =>
          \A i \in 1..Len(reports') : reports'[i].nik = EmptyNik]_vars

\* Partition keys are not respected, and the report of a caller that passed
\* k2 sits in the cache next to another one of the same origin and group,
\* both under the empty key.
C14_Witness ==
  /\ ~respect_network_isolation_key
  /\ last_call.op = "QueueReport"
  /\ last_call.nik = "k2"
  /\ Len(reports) = 2
  /\ reports[2].id = calls
  /\ reports[1].origin = reports[2].origin
  /\ reports[1].group = reports[2].group
  /\ reports[1].nik = EmptyNik /\ reports[2].nik = EmptyNik

\* C15: a header of exactly 16384 bytes passes the size check and one of
\* 16385 bytes is dropped.
C15_SizeLimitInclusive ==
  [][CallOf("ProcessReportToHeader") =>
       /\ last_call'.size = 16385 => UNCHANGED serviceVars
       /\ (/\ last_call'.size = 16384
           /\ last_call'.json.well_formed
           /\ last_call'.json.depth < kMaxJsonDepth
           /\ ~shut_down)
            => issued' = Append(issued, calls + 1)]_vars

\* A header of 16384 bytes went through the gate.
C15_Witness ==
  /\ last_call.op = "ProcessReportToHeader"
  /\ last_call.size = 16384
  /\ issued # <<>>
  /\ issued[Len(issued)] = calls
  /\ \E i \in 1..Len(executed) : executed[i].id = calls

\* A header of the right size that is JSON reached the parser on a service
\* that was not shut down.
ParsedHeader ==
  /\ CallOf("ProcessReportToHeader")
  /\ last_call'.size <= kMaxJsonSize
  /\ last_call'.json.well_formed
  /\ ~shut_down

\* C16 as stated: a header whose JSON nests 5 deep is accepted and one that
\* nests 6 deep is rejected.
C16_HeaderDepth5Accepted ==
  [][ParsedHeader =>
       /\ last_call'.json.depth = 5 => issued' = Append(issued, calls + 1)
       /\ last_call'.json.depth = 6 => UNCHANGED serviceVars]_vars

\* C16 amended: the limit of 5 applies to the header inside its added pair of
\* brackets, so that a header whose own JSON nests 4 deep is accepted and one
\* that nests 5 deep, or deeper, is rejected.
C16_HeaderDepth4Accepted ==
  [][ParsedHeader =>
       /\ last_call'.json.depth = 4 => issued' = Append(issued, calls + 1)
       /\ last_call'.json.depth >= 5 => UNCHANGED serviceVars]_vars

\* A header that nests 5 deep was dropped as the first call.
C16_Witness ==
  /\ last_call.op = "ProcessReportToHeader"
  /\ last_call.size <= kMaxJsonSize
  /\ last_call.json.well_formed
  /\ last_call.json.depth = 5
  /\ calls = 1 /\ issued = <<>> /\ ~shut_down

\* C17: the cache never holds more than MaxReportCount reports.
C17_ReportCountWithinCap == Len(reports) <= MaxReportCount

C19_NoStoreRunsSynchronously ==
  ~persisted =>
    /\ initialized
    /\ task_backlog = <<>>
    /\ ~started_loading_from_store
    /\ ~store_load_pending
    /\ store_loads = 0
    /\ ExecIds(executed) = IssuedBeforeShutdown

\* Without a store, three gated calls have each run and the service was then
\* not shut down.
C19_Witness ==
  /\ ~persisted
  /\ shutdown_call = 0
  /\ Len(issued) = 3
  /\ ExecIds(executed) = issued

\* C20: the assertions of the facade hold: a Do* body and ExecuteBacklog run
\* only on an initialized service, and the store load is started only on one
\* that is not initialized, so that nothing has run while the load is pending.
C20_FacadeAssertionsHold ==
  /\ dchecks_ok
  /\ store_load_pending => (persisted /\ ~initialized /\ executed = <<>>)
  /\ executed # <<>> => initialized

\* ExecuteBacklog has replayed two deferred tasks when the load completed.
C20_Witness ==
  /\ persisted
  /\ initialized
  /\ loaded_at >= 2
  /\ shutdown_call = 0
  /\ Len(executed) >= 2
  /\ task_backlog = <<>>

\* C21: between the calls and callbacks, a service that is initialized and not
\* shut down has an empty backlog; the backlog holds a task only while the
\* store load is pending or after a shutdown.
C21_BacklogEmptyWhenInitialized ==
  /\ (initialized /\ ~shut_down) => task_backlog = <<>>
  /\ task_backlog # <<>> => (store_load_pending \/ shut_down)

\* After the load has replayed a deferred task, a later gated call ran without
\* being deferred.
C21_Witness ==
  /\ persisted
  /\ initialized /\ ~shut_down
  /\ loaded_at >= 1
  /\ calls > loaded_at
  /\ Len(issued) = calls
  /\ ExecIds(executed) = issued
  /\ task_backlog = <<>>

\* C22: a store load that completes after OnShutdown leaves the cache as it
\* was: the loaded endpoints and groups are not installed.
C22_LoadAfterShutdownLeavesCache ==
  [][(LoadCompletes /\ shut_down)
       => UNCHANGED <<reports, clients, expired_sources>>]_vars

\* What a SetDocumentReportingEndpoints call made now with the key nik hands
\* to the backlog or to the header parser and the cache.
SetDocumentReportingEndpointsWith(nik) ==
  LET t == Task("SetDocumentReportingEndpoints", calls + 1, "S",
                FixupNetworkIsolationKey(nik), SourceOrigin, "g", 0, 0, {},
                {}, IsolationInfo(nik))
      st == FetchChecked(Ctx)
  IN  IF ~initialized
      THEN [st EXCEPT !.task_backlog = Append(@, t)]
      ELSE RunTask(st, t)

\* C24 as stated: when partition keys are not respected, a
\* SetDocumentReportingEndpoints call leaves the backlog, the endpoints, the
\* isolation info held for the source and the log of what the header parser
\* was handed as the same call with any other partition key would have left
\* them.
C24_DocumentEndpointsIgnoreCallerKey ==
  [][(PassedOn("SetDocumentReportingEndpoints")
        /\ ~respect_network_isolation_key)
       => \A nik \in NIKs :
            LET st == SetDocumentReportingEndpointsWith(nik)
            IN  /\ task_backlog' = st.task_backlog
                /\ clients' = st.clients
                /\ executed' = st.executed
                /\ isolation_infos' = st.isolation_infos]_vars

\* A task or log entry without the isolation info it carries.
WithoutIsolationInfo(seq) ==
  [i \in 1..Len(seq) |-> [seq[i] EXCEPT !.isolation_info = NoInput]]

\* C24 amended: when partition keys are not respected, the partition key
\* argument and the endpoints of a SetDocumentReportingEndpoints call are
\* what any other caller key would have given, and the isolation info is
\* handed on as the caller passed it.
C24_DocumentEndpointsKeyIgnoresCallerKey ==
  [][(PassedOn("SetDocumentReportingEndpoints")
        /\ ~respect_network_isolation_key)
       => /\ \A nik \in NIKs :
               LET st == SetDocumentReportingEndpointsWith(nik)
               IN  /\ WithoutIsolationInfo(task_backlog')
                        = WithoutIsolationInfo(st.task_backlog)
                   /\ clients' = st.clients
                   /\ WithoutIsolationInfo(executed')
                        = WithoutIsolationInfo(st.executed)
          /\ IF Len(task_backlog') > Len(task_backlog)
             THEN task_backlog'[Len(task_backlog')].isolation_info
                    = IsolationInfo(last_call'.nik)
             ELSE [source |-> "S",
                   isolation_info |-> IsolationInfo(last_call'.nik)]
                    \in isolation_infos']_vars

\* Keys are not respected, the second of two SetDocumentReportingEndpoints
\* calls passed k2, and the source has one endpoint group under the empty key
\* and the isolation info that carries k2.
C24_Witness ==
  /\ ~respect_network_isolation_key
  /\ last_call.op = "SetDocumentReportingEndpoints"
  /\ last_call.nik = "k2"
  /\ calls = 2 /\ Len(executed) = 2
  /\ clients = {ClientKey("S", SourceOrigin, EmptyNik, "g")}
  /\ isolation_infos = {[source |-> "S", isolation_info |-> IsolationInfo("k2")]}

\* C23: once the service is destroyed nothing runs against it: a store load
\* that completes later runs no deferred task and leaves the cache alone; and
\* the destructor flushes the cache exactly when the service is initialized.
C23_DestroyedServiceUntouched ==
  [][/\ destroyed =>
          UNCHANGED <<reports, clients, expired_sources, executed,
                      isolation_infos, task_backlog, initialized, uploads,
                      flushes>>
     /\ (~destroyed /\ destroyed') =>
          flushes' = IF initialized THEN flushes + 1 ELSE flushes]_vars

\* The service was destroyed with a task deferred, and the load completed
\* afterwards.
C23_Witness ==
  /\ destroyed
  /\ persisted /\ store_clients # {}
  /\ store_loads = 1 /\ ~store_load_pending
  /\ ~initialized
  /\ task_backlog # <<>>
  /\ clients = {} /\ executed = <<>>
  /\ flushes = 0

\* ------------------------------------------------- the mock host resolver
\* The request is in the pending-request map.
InMap(map, r) == \E i \in DOMAIN map : map[i] = r

\* Start returns for request r in this step.
StartReturns(r) == reqs[r].alive = "unborn" /\ reqs'[r].alive = "live"

\* The completion callback of request r runs in this step.
CallbackRuns(r) == reqs'[r].callback_runs # reqs[r].callback_runs

\* C25: Start returns ERR_IO_PENDING exactly when it stored the request in
\* the pending-request map under a fresh id greater than 0; with any other
\* return value the request has id 0, is not in the map and is complete; the
\* assertions of Start, set_id and SetError hold.
C25_PendingIffRegistered ==
  [][/\ failed' \notin {"Start", "set_id", "SetError"}
     /\ \A r \in RequestIds :
          StartReturns(r) =>
            LET q == reqs'[r]
            IN  /\ q.rv # NoRv
                /\ q.rv = "ERR_IO_PENDING" <=>
                     /\ q.id > 0
                     /\ q.id = next_request_id
                     /\ q.id \notin DOMAIN requests
                     /\ q.id \in DOMAIN requests'
                     /\ requests'[q.id] = r
                /\ q.rv = "ERR_IO_PENDING" => ~q.complete /\ q.callback
                /\ q.rv # "ERR_IO_PENDING" =>
                     /\ q.id = 0
                     /\ ~InMap(requests', r)
                     /\ q.complete
                     /\ requests' = requests
                     /\ next_request_id' = next_request_id]_vars

\* The first request was stored and completed by its task, the second one
\* was answered from the cache the first one filled.
C25_Witness ==
  /\ failed = NoFailure
  /\ reqs[1].rv = "ERR_IO_PENDING" /\ reqs[1].complete
  /\ reqs[2].alive = "live" /\ reqs[2].request_host = "ok.test"
  /\ reqs[2].rv = "OK" /\ reqs[2].complete /\ reqs[2].id = 0
  /\ DOMAIN requests = {}
  /\ next_request_id = 2

\* C26: the completion callback of a request runs at most once, only for a
\* live request whose Start returned ERR_IO_PENDING, never after OnShutdown,
\* and the assertions of OnAsyncCompleted and SetError hold.
C26_CallbackAtMostOnce ==
  [][/\ failed' \notin {"OnAsyncCompleted", "SetError"}
     /\ \A r \in RequestIds :
          CallbackRuns(r) =>
            /\ reqs[r].callback_runs = 0
            /\ reqs'[r].callback_runs = 1
            /\ reqs[r].alive = "live"
            /\ reqs[r].rv = "ERR_IO_PENDING"
            /\ ~on_shutdown_called]_vars

\* The first request was destroyed while pending and its task has run since;
\* the callback of the second one has run.
C26_Witness ==
  /\ failed = NoFailure
  /\ ~synchronous_mode /\ ~ondemand_mode
  /\ reqs[1].alive = "destroyed" /\ reqs[1].rv = "ERR_IO_PENDING"
  /\ reqs[1].callback_runs = 0
  /\ reqs[2].rv = "ERR_IO_PENDING" /\ reqs[2].callback_runs = 1
  /\ posted_tasks = <<>>

\* C27: OnShutdown leaves the pending-request map empty and every request
\* that was pending detached (id 0, no resolver); destroying a detached
\* request leaves the map alone and fails no CHECK.
C27_ShutdownDetachesPending ==
  [][/\ MockOnShutdown =>
          /\ DOMAIN requests' = {}
          /\ \A r \in RequestIds :
               InMap(requests, r) =>
                 reqs'[r].id = 0 /\ ~reqs'[r].resolver
     /\ \A r \in RequestIds :
          (/\ reqs[r].alive = "live" /\ ~reqs[r].resolver
           /\ reqs'[r].alive = "destroyed") =>
            requests' = requests /\ failed' = NoFailure]_vars

\* OnShutdown ran with a request pending, which is detached and still alive;
\* another request that had been pending is destroyed.
C27_Witness ==
  /\ failed = NoFailure
  /\ on_shutdown_called
  /\ ondemand_mode
  /\ reqs[1].alive = "live" /\ reqs[1].rv = "ERR_IO_PENDING"
  /\ ~reqs[1].complete /\ reqs[1].id = 0 /\ ~reqs[1].resolver
  /\ reqs[2].alive = "destroyed" /\ reqs[2].rv = "ERR_IO_PENDING"
  /\ reqs[2].callback_runs = 0
  /\ DOMAIN requests = {}

\* C28: a request has an id greater than 0 exactly when the pending-request
\* map holds it under that id; the ids are handed out once each, from 1 on,
\* in the order of registration; the CHECK of DetachRequest and the
\* assertions of set_id hold; ResolveNow for an id that is not in the map
\* changes nothing.
C28_IdsMatchMap ==
  /\ \A r \in RequestIds :
       reqs[r].id > 0 <=>
         (reqs[r].id \in DOMAIN requests /\ requests[reqs[r].id] = r)
  /\ \A i \in DOMAIN requests :
       reqs[requests[i]].id = i /\ 1 <= i /\ i < next_request_id
  /\ next_request_id =
       1 + Cardinality({r \in RequestIds : reqs[r].rv = "ERR_IO_PENDING"})
  /\ \A r1, r2 \in RequestIds :
       (r1 < r2 /\ reqs[r1].id > 0 /\ reqs[r2].id > 0) =>
         reqs[r1].id < reqs[r2].id
  /\ failed \notin {"DetachRequest", "set_id"}
  /\ \A k \in 1..Len(posted_tasks) :
       posted_tasks[k].id \notin DOMAIN requests =>
         ResolveNow(MockCtx, posted_tasks[k].id) = MockCtx

\* Two requests were registered and the first one was cancelled with its
\* task still posted.
C28_Witness ==
  /\ failed = NoFailure
  /\ reqs[1].alive = "destroyed" /\ reqs[1].rv = "ERR_IO_PENDING"
  /\ reqs[2].id = 2
  /\ DOMAIN requests = {2}
  /\ next_request_id = 3
  /\ Len(posted_tasks) = 2 /\ posted_tasks[1].id = 1

\* C29: ResolveProc always finds rules for the source it is asked for.
C29_ResolveProcFindsRules == failed # "ResolveProc"

\* C30: a request registered in on-demand mode has no task posted for it and
\* is completed only by ResolveOnlyRequestNow or by a task ResolveAllPending
\* posted; a request registered in the default mode has exactly one task
\* posted for it; a task for an id that is no longer pending changes nothing,
\* so that no request is completed twice.
C30_OnDemandCompletion ==
  [][/\ \A r \in RequestIds :
          (StartReturns(r) /\ reqs'[r].rv = "ERR_IO_PENDING") =>
            posted_tasks' =
              IF ondemand_mode
                THEN posted_tasks
                ELSE Append(posted_tasks,
                            [id |-> reqs'[r].id, from |-> "Resolve"])
     /\ \A r \in RequestIds :
          (CallbackRuns(r) /\ reqs[r].ondemand) =>
            \/ posted_tasks' = posted_tasks
            \/ /\ posted_tasks # <<>>
               /\ posted_tasks' = Tail(posted_tasks)
               /\ Head(posted_tasks) =
                    [id |-> reqs[r].id, from |-> "ResolveAllPending"]
     /\ \A r \in RequestIds : reqs'[r].callback_runs <= 1
     /\ (/\ posted_tasks # <<>>
         /\ posted_tasks' = Tail(posted_tasks)
         /\ Head(posted_tasks).id \notin DOMAIN requests) =>
          UNCHANGED <<requests, reqs, next_request_id, cache, failed>>]_vars

\* ResolveAllPending ran twice for one pending request: the first task has
\* completed the request and the second one is still posted.
C30_Witness ==
  /\ failed = NoFailure
  /\ ondemand_mode /\ ~synchronous_mode
  /\ reqs[1].alive = "live" /\ reqs[1].ondemand
  /\ reqs[1].complete /\ reqs[1].callback_runs = 1
  /\ posted_tasks = <<[id |-> 1, from |-> "ResolveAllPending"]>>

\* The fresh cache entries a lookup of the host under source ANY finds.
FoundUnderAny(host) ==
  IF cache.null
    THEN {}
    ELSE Lookup(cache.entries, CacheKey(host, "UNSPECIFIED", "ANY"))

\* C31: a request with source LOCAL_ONLY is answered by Start at once, from
\* the IP-literal check or from the cache entry stored under source ANY: it
\* is complete, is not pending, has no task posted, and ResolveProc has not
\* run (num_non_local_resolves is unchanged).
C31_LocalOnlyAnsweredLocally ==
  [][\A r \in RequestIds :
       (StartReturns(r) /\ reqs'[r].source = "LOCAL_ONLY") =>
         LET q == reqs'[r]
             found == FoundUnderAny(q.request_host)
         IN  /\ q.rv # "ERR_IO_PENDING" /\ q.complete /\ q.id = 0
             /\ ~InMap(requests', r)
             /\ UNCHANGED <<requests, posted_tasks, next_request_id,
                            num_non_local_resolves, failed>>
             /\ q.rv = IF IsIPLiteral(q.request_host)
                         THEN "OK"
                         ELSE IF found = {}
                                THEN "ERR_NAME_NOT_RESOLVED"
                                ELSE (CHOOSE e \in found : TRUE).error]_vars

\* A LOCAL_ONLY request was answered from the entry that a request with
\* source ANY had stored.
C31_Witness ==
  /\ failed = NoFailure
  /\ reqs[1].source = "ANY" /\ reqs[1].rv = "ERR_IO_PENDING"
  /\ reqs[1].complete
  /\ reqs[2].source = "LOCAL_ONLY" /\ reqs[2].request_host = "ok.test"
  /\ reqs[2].rv = "OK" /\ reqs[2].complete
  /\ num_non_local_resolves = 1
  /\ DOMAIN requests = {}

\* The counters of the key, in the state before and after the step.
NumsOf(key) == {n.num : n \in {x \in cache_invalidation_nums : x.key = key}}
NumsOfNext(key) ==
  {n.num : n \in {x \in cache_invalidation_nums' : x.key = key}}

\* The key has an entry that a lookup within its time to live finds.
Fresh(key) == ~cache.null /\ Lookup(cache.entries, key) # {}
FreshNext(key) == ~cache'.null /\ Lookup(cache'.entries, key) # {}

\* The key a request is looked up under, and the key its result is stored
\* under.
LookupKey(q) ==
  CacheKey(q.request_host, q.dns_query_type, EffectiveSource(q.source))
StoreKey(q) ==
  CacheKey(q.request_host, FamilyQueryType(q.dns_query_type), q.source)

\* ResolveProc has stored a successful result under the key in this step.
StoredAfresh(key) ==
  /\ num_non_local_resolves' = num_non_local_resolves + 1
  /\ NumsOfNext(key) = {initial_cache_invalidation_num}
  /\ FreshNext(key)

\* C32: with a cache and cache_invalidation_num = N > 0, a successful
\* ResolveProc stores the entry with a counter of N; every lookup that finds
\* the entry is answered from the cache and counts down by one; the hit that
\* reaches 0 stores the entry again with no time to live and erases the
\* counter, so that the next lookup misses and goes to ResolveProc; a counter
\* is between 1 and N while present and belongs to a fresh entry.
C32_InvalidatedAfterHits ==
  [][/\ failed' # "ResolveFromIPLiteralOrCache"
     /\ \A n \in cache_invalidation_nums' :
          /\ 1 <= n.num /\ n.num <= initial_cache_invalidation_num
          /\ Cardinality(NumsOfNext(n.key)) = 1
          /\ ~cache'.null => FreshNext(n.key)
     /\ ~cache'.null =>
          \A e \in cache'.entries :
            e.ttl > 0 => e.error = "OK" /\ NumsOfNext(e.key) # {}
     /\ \A r \in RequestIds :
          (StartReturns(r) /\ ~IsIPLiteral(reqs'[r].request_host)
           /\ ~cache.null) =>
            LET q == reqs'[r]
                key == LookupKey(q)
            IN  IF Fresh(key)
                  THEN /\ q.rv = "OK" /\ q.complete
                       /\ num_non_local_resolves' = num_non_local_resolves
                       /\ \A c \in NumsOf(key) :
                            IF c > 1
                              THEN NumsOfNext(key) = {c - 1} /\ FreshNext(key)
                              ELSE /\ NumsOfNext(key) = {}
                                   /\ ~FreshNext(key)
                                   /\ LookupStale(cache'.entries, key) # {}
                  ELSE (q.source # "LOCAL_ONLY"
                        /\ IsValidDNSDomain(q.request_host)) =>
                         IF synchronous_mode
                           THEN /\ num_non_local_resolves' =
                                     num_non_local_resolves + 1
                                /\ q.rv = "OK" => StoredAfresh(StoreKey(q))
                           ELSE q.rv = "ERR_IO_PENDING"
     /\ \A r \in RequestIds :
          (CallbackRuns(r) /\ reqs'[r].error = "OK" /\ ~cache.null) =>
            StoredAfresh(StoreKey(reqs[r]))]_vars

\* N = 1: one of three lookups of the host went to ResolveProc, the next was
\* answered from the cache and invalidated the entry, and the third went to
\* ResolveProc again.
C32_Witness ==
  /\ failed = NoFailure
  /\ initial_cache_invalidation_num = 1
  /\ synchronous_mode
  /\ loads = 1
  /\ \A r \in 1..2 :
       /\ reqs[r].request_host = "ok.test" /\ reqs[r].source = "ANY"
       /\ reqs[r].rv = "OK"
  /\ num_non_local_resolves = 2
  /\ NumsOf(CacheKey("ok.test", "UNSPECIFIED", "ANY")) = {1}

====
